---- MODULE Spec2Model ----
(***************************************************************************)
(* Video-hosting integration and signed-access subsystem of the course     *)
(* backend: the BunnyVideo lifecycle (create / confirm / poll / delete),   *)
(* the lesson-video binding written by LessonWriteSerializer, the signed   *)
(* URL generator with its cache, and the access decision taken by          *)
(* LessonSerializer.get_signed_video_url and IsEnrolledOrFreePreview.      *)
(* Every request handler is one atomic action; the remote host's answers   *)
(* and the request bodies are inputs chosen with \E.                       *)
(***************************************************************************)
EXTENDS Integers, Sequences, FiniteSets, TLC

VARIABLES
    settings,      \* django.conf.settings read by BunnyStreamService.__init__
    videos,        \* BunnyVideo table: id -> row
    nextVideoId,   \* auto-increment primary key of BunnyVideo
    lessons,       \* Lesson table: id -> row
    nextLessonId,  \* auto-increment primary key of Lesson
    enrollments,   \* Enrollment table: set of rows [user, course, saleor_order_id]
    cache,         \* django.core.cache: key -> [url, set_at, timeout]
    now,           \* int(time.time())
    resp,          \* what the last handler returned and what it observed
    workers,       \* requests served concurrently: worker -> its position and locals
    remote,        \* the state of the video on the remote host while they run
    progress,      \* LessonProgress table: <<user, lesson id>> -> row
    addresses,     \* UserAddress table: id -> row
    nextAddressId  \* auto-increment primary key of UserAddress

vars == <<settings, videos, nextVideoId, lessons, nextLessonId, enrollments,
          cache, now, resp, workers, remote, progress, addresses, nextAddressId>>

----------------------------------------------------------------------------
(* Bounds of the model *)

MaxVideos == 1
MaxLessons == 1
MaxTicks == 6
MaxWorkers == 2
MaxAddresses == 3

----------------------------------------------------------------------------
(* Python values *)

\* None is the empty tuple and a present value x is <<x>>, so that a nullable
\* column can be compared with either.
None == <<>>
Some(x) == <<x>>

\* a dict with no keys
EmptyDict == [k \in {} |-> None]

\* dict.get(key) of a JSON object modelled as a function on its keys
GetOpt(d, k) == IF k \in DOMAIN d THEN Some(d[k]) ELSE None

\* dict.get(key, default)
Get(d, k, default) == IF k \in DOMAIN d THEN d[k] ELSE default

\* str(n) for a non-negative integer, as a sequence of digit characters
Digit(n) == <<SubSeq(<<"0", "1", "2", "3", "4", "5", "6", "7", "8", "9">>, n + 1, n + 1)[1]>>

RECURSIVE Decimal(_)
Decimal(n) == IF n < 10 THEN Digit(n) ELSE Decimal(n \div 10) \o Digit(n % 10)

----------------------------------------------------------------------------
(* Users, courses, settings *)

Anonymous == "AnonymousUser"
Users == {"alice", "sam"}
Viewers == Users \cup {Anonymous}
Courses == {"c1", "c2"}

is_authenticated(user) == user # Anonymous
is_staff(user) == user = "sam"

ConfiguredSettings ==
    [BUNNY_STREAM_LIBRARY_ID |-> <<"7">>,
     BUNNY_STREAM_API_KEY |-> <<"k">>,
     BUNNY_STREAM_CDN_HOSTNAME |-> <<"c", "d", "n">>,
     BUNNY_STREAM_SECURITY_KEY |-> <<"s">>]

UnconfiguredSettings == [ConfiguredSettings EXCEPT !.BUNNY_STREAM_API_KEY = <<>>]

\* BunnyStreamService.is_configured
is_configured == settings.BUNNY_STREAM_LIBRARY_ID # <<>> /\ settings.BUNNY_STREAM_API_KEY # <<>>

----------------------------------------------------------------------------
(* Remote video host: what a call can return *)

\* guid the host assigns to the n-th video it creates
Guid(n) == <<"g">> \o Decimal(n)

RemoteError == [ok |-> FALSE]

RemoteCodes == 0 .. 5

\* JSON body of GET /videos/{guid}: the status code alone, or, once the host
\* has encoded the video, the status code with the metadata keys
BunnyData ==
    {[status |-> c] : c \in RemoteCodes}
    \cup {[status |-> 4, length |-> 60, storageSize |-> 1000,
           thumbnailFileName |-> <<"t.jpg">>, thumbnailBlurhash |-> "LKO2"]}

\* BunnyStreamService.get_video_status: raise_for_status() or the JSON body
GetVideoStatusResults == {RemoteError} \cup {[ok |-> TRUE, data |-> d] : d \in BunnyData}

\* BunnyStreamService.create_video: raise_for_status() or the new guid
CreateVideoResults(n) == {RemoteError, [ok |-> TRUE, data |-> [guid |-> Guid(n)]]}

\* BunnyStreamService.delete_video: True, False, or an exception from requests
DeleteVideoResults == {"true", "false", "raised"}

----------------------------------------------------------------------------
(* BunnyVideo *)

VIDEO_STATUS_CHOICES == {"uploading", "processing", "ready", "failed"}

\* a new row that starts in processing instead of uploading
NewBunnyVideo_processing(guid, user) ==
    [guid |-> guid,
     status |-> "processing",
     duration_seconds |-> None,
     file_size_bytes |-> None,
     thumbnail_url |-> <<>>,
     thumbnail_blurhash |-> "",
     uploaded_by |-> user]

\* BunnyVideo.objects.create(guid=..., status='uploading', uploaded_by=...)
NewBunnyVideo(guid, user) ==
    [guid |-> guid,
     status |-> "uploading",
     duration_seconds |-> None,
     file_size_bytes |-> None,
     thumbnail_url |-> <<>>,
     thumbnail_blurhash |-> "",
     uploaded_by |-> user]

\* bunny_data.get('thumbnailFileName') or 'thumbnail.jpg', then the f-string
ThumbnailUrl(guid, bunny_data) ==
    LET name == Get(bunny_data, "thumbnailFileName", <<>>)
        thumbnail_filename == IF name # <<>> THEN name ELSE <<"thumbnail.jpg">>
    IN <<"https://">> \o settings.BUNNY_STREAM_CDN_HOSTNAME \o <<"/">> \o guid
       \o <<"/">> \o thumbnail_filename

\* the metadata assignments shared by confirm and by poll's ready branch
WithMetadata(video, bunny_data) ==
    [video EXCEPT !.duration_seconds = GetOpt(bunny_data, "length"),
                  !.file_size_bytes = GetOpt(bunny_data, "storageSize"),
                  !.thumbnail_blurhash = Get(bunny_data, "thumbnailBlurhash", ""),
                  !.thumbnail_url = ThumbnailUrl(video.guid, bunny_data)]

\* video.lessons.exists()
InUse(video_id) == \E l \in DOMAIN lessons : lessons[l].bunny_video = Some(video_id)

\* BunnyVideoSerializer(video).data
BunnyVideoSerializer(video_id, video) ==
    [id |-> video_id, guid |-> video.guid, status |-> video.status,
     duration_seconds |-> video.duration_seconds,
     file_size_bytes |-> video.file_size_bytes,
     thumbnail_url |-> video.thumbnail_url,
     thumbnail_blurhash |-> video.thumbnail_blurhash]

----------------------------------------------------------------------------
(* Signed URLs and their cache *)

SecondsPerHour == 3600
DefaultExpiresHours == 6
CacheTimeoutHours == 5

\* expires_hours arguments a caller may pass; every caller in the repository
\* passes the default
ExpiresHours == {1, DefaultExpiresHours}

\* cache.get(key): the entry, unless absent or past its timeout
CacheGet(key) ==
    IF key \in DOMAIN cache /\ now < cache[key].set_at + cache[key].timeout
    THEN Some(cache[key].url)
    ELSE None

\* cache.set that drops every other entry
CacheSet_flush(key, url, timeout) ==
    [k \in {key} |-> [url |-> url, set_at |-> now, timeout |-> timeout]]

\* cache.set(key, url, timeout=...)
CacheSet(key, url, timeout) ==
    [k \in DOMAIN cache \cup {key} |->
        IF k = key THEN [url |-> url, set_at |-> now, timeout |-> timeout] ELSE cache[k]]

\* hashlib.sha256(s.encode()): kept symbolic, as the digest of its input
Sha256(input) == [sha256 |-> input]

PlaybackKey(guid) == <<"bunny_signed_url_", guid>>
ThumbKey(guid) == <<"bunny_thumb_", guid>>

\* the token with the expiry left out of the hashed string
playback_token_no_expiry(security_key, guid, expiry) ==
    [hexdigest |-> Sha256(security_key \o guid)]

\* token_string = f"{self.security_key}{guid}{expiry}", then its SHA256 hexdigest
playback_token(security_key, guid, expiry) ==
    [hexdigest |-> Sha256(security_key \o guid \o Decimal(expiry))]

\* the URL BunnyStreamService.generate_signed_url computes on a cache miss
SignedUrl(guid, expires_hours) ==
    LET expiry == now + expires_hours * SecondsPerHour
    IN [host |-> <<"iframe.mediadelivery.net">>,
        path |-> <<"/embed/">> \o settings.BUNNY_STREAM_LIBRARY_ID \o <<"/">> \o guid,
        token |-> playback_token(settings.BUNNY_STREAM_SECURITY_KEY, guid, expiry),
        expires |-> expiry]

\* the URL BunnyStreamService.generate_signed_thumbnail_url computes on a miss
SignedThumbnailUrl(guid, expires_hours) ==
    LET expiry == now + expires_hours * SecondsPerHour
        path == <<"/">> \o guid \o <<"/thumbnail.jpg">>
        token_string == settings.BUNNY_STREAM_SECURITY_KEY \o path \o Decimal(expiry)
    IN [host |-> settings.BUNNY_STREAM_CDN_HOSTNAME,
        path |-> path,
        token |-> [urlsafe_b64_nopad |-> Sha256(token_string)],
        expires |-> expiry]

\* expires_seconds: int = 3600
DefaultExpiresSeconds == 3600

\* BunnyStreamService.generate_tus_auth_headers
generate_tus_auth_headers(guid, expires_seconds) ==
    LET expiry == now + expires_seconds
        signature_string == settings.BUNNY_STREAM_LIBRARY_ID \o settings.BUNNY_STREAM_API_KEY
                            \o Decimal(expiry) \o guid
    IN [AuthorizationSignature |-> [hexdigest |-> Sha256(signature_string)],
        AuthorizationExpire |-> Decimal(expiry),
        VideoId |-> guid,
        LibraryId |-> settings.BUNNY_STREAM_LIBRARY_ID]

\* timeout passed to cache.set by both generators
SignedUrlCacheTimeout(expires_hours) == CacheTimeoutHours * SecondsPerHour

\* BunnyStreamService.generate_signed_url: <<returned url, cache afterwards>>
generate_signed_url(guid, expires_hours) ==
    LET cached == CacheGet(PlaybackKey(guid))
        signed_url == SignedUrl(guid, expires_hours)
    IN IF cached # None
       THEN <<cached[1], cache>>
       ELSE <<signed_url,
              CacheSet(PlaybackKey(guid), signed_url, SignedUrlCacheTimeout(expires_hours))>>

\* BunnyStreamService.generate_signed_thumbnail_url
generate_signed_thumbnail_url(guid, expires_hours) ==
    LET cached == CacheGet(ThumbKey(guid))
        signed_url == SignedThumbnailUrl(guid, expires_hours)
    IN IF cached # None
       THEN <<cached[1], cache>>
       ELSE <<signed_url,
              CacheSet(ThumbKey(guid), signed_url, SignedUrlCacheTimeout(expires_hours))>>

----------------------------------------------------------------------------
(* Access decision *)

\* course.enrollments.filter(user=request.user).exists()
IsEnrolled(user, course) == \E e \in enrollments : e.user = user /\ e.course = course

\* lesson.bunny_video resolved through the foreign key
BoundVideo(lesson) ==
    IF lesson.bunny_video # None /\ lesson.bunny_video[1] \in DOMAIN videos
    THEN Some(videos[lesson.bunny_video[1]])
    ELSE None

\* SignedUrlGranted with the free-preview test ahead of the authentication test
SignedUrlGranted_preview_first(user, lesson) ==
    LET video == BoundVideo(lesson) IN
    IF video = None \/ video[1].status # "ready" THEN FALSE
    ELSE IF lesson.is_free_preview THEN TRUE
    ELSE IF ~is_authenticated(user) THEN FALSE
    ELSE IF is_staff(user) THEN TRUE
    ELSE IsEnrolled(user, lesson.course)

\* SignedUrlGranted with the staff test ahead of the readiness test
SignedUrlGranted_staff_first(user, lesson) ==
    LET video == BoundVideo(lesson) IN
    IF is_authenticated(user) /\ is_staff(user) /\ video # None THEN TRUE
    ELSE IF video = None \/ video[1].status # "ready" THEN FALSE
    ELSE IF ~is_authenticated(user) THEN FALSE
    ELSE IsEnrolled(user, lesson.course) \/ lesson.is_free_preview

\* SignedUrlGranted with enrollment in any course taken for enrollment in the
\* lesson's course
SignedUrlGranted_any_course(user, lesson) ==
    LET video == BoundVideo(lesson) IN
    IF video = None \/ video[1].status # "ready" THEN FALSE
    ELSE IF ~is_authenticated(user) THEN FALSE
    ELSE IF is_staff(user) THEN TRUE
    ELSE (\E c \in Courses : IsEnrolled(user, c)) \/ lesson.is_free_preview

\* LessonSerializer.get_signed_video_url without the URL itself: TRUE when the
\* method reaches one of its two generate_signed_url calls
SignedUrlGranted(user, lesson) ==
    LET video == BoundVideo(lesson) IN
    IF video = None \/ video[1].status # "ready" THEN FALSE
    ELSE IF ~is_authenticated(user) THEN FALSE
    ELSE IF is_staff(user) THEN TRUE
    ELSE IsEnrolled(user, lesson.course) \/ lesson.is_free_preview

\* get_signed_video_url looking into the cache before it decides
get_signed_video_url_cache_first(user, lesson) ==
    LET video == BoundVideo(lesson)
        cached == IF video = None THEN None ELSE CacheGet(PlaybackKey(video[1].guid))
    IN IF cached # None
       THEN <<cached, cache>>
       ELSE IF SignedUrlGranted(user, lesson)
       THEN LET r == generate_signed_url(video[1].guid, DefaultExpiresHours)
            IN <<Some(r[1]), r[2]>>
       ELSE <<None, cache>>

\* LessonSerializer.get_signed_video_url: <<field value, cache afterwards>>
get_signed_video_url(user, lesson) ==
    IF SignedUrlGranted(user, lesson)
    THEN LET r == generate_signed_url(BoundVideo(lesson)[1].guid, DefaultExpiresHours)
         IN <<Some(r[1]), r[2]>>
    ELSE <<None, cache>>

\* IsEnrolledOrFreePreview.has_object_permission
IsEnrolledOrFreePreview(user, lesson) ==
    IF lesson.is_free_preview THEN TRUE
    ELSE IF ~is_authenticated(user) THEN FALSE
    ELSE IsEnrolled(user, lesson.course)

\* IsStaff.has_permission
IsStaff(user) == is_authenticated(user) /\ is_staff(user)

----------------------------------------------------------------------------
(* Responses *)

\* What a handler leaves behind: the status it answered with and its body,
\* together with what it observed on the way: the row it loaded (before), the
\* remote calls it made, the payload it read (bunny_data) and how its
\* video.save() ended (save).
Response(op, user, http) ==
    [op |-> op, user |-> user, http |-> http, remote_calls |-> <<>>,
     video_id |-> None, lesson_id |-> None, before |-> None, bunny_data |-> None,
     save |-> None, signed_video_url |-> None, body |-> EmptyDict]

VideoResponse(op, user, http, video_id, before, remote_calls, bunny_data, body) ==
    [Response(op, user, http) EXCEPT !.video_id = Some(video_id),
                                     !.before = before,
                                     !.remote_calls = remote_calls,
                                     !.bunny_data = bunny_data,
                                     !.body = body]

LessonResponse(op, user, http, lesson_id, signed_video_url) ==
    [Response(op, user, http) EXCEPT !.lesson_id = Some(lesson_id),
                                     !.signed_video_url = signed_video_url]

\* a staff check that lets the request through with an empty answer
StaffAccessRequired_ok(op, user) == Response(op, user, "200")

\* "if not request.user.is_staff: return Response(..., 403)"
StaffAccessRequired(op, user) == Response(op, user, "403")

\* an exception no handler catches: Django answers 500 for the request
ServerError(response, exception) ==
    [response EXCEPT !.http = "500", !.body = [detail |-> exception]]

\* video.save(): the row is written, or the database raises
SaveResults == {"saved", "DatabaseError"}

\* video.save(update_fields=['status']): only the status column is written
saved_row_status_only(stored, video) == [stored EXCEPT !.status = video.status]

\* Model.save() without update_fields writes every column of the instance
saved_row(stored, video) == video

----------------------------------------------------------------------------
(* Video lifecycle handlers *)

\* create_bunny_upload
create_bunny_upload(user) ==
        IF ~is_staff(user)
        THEN /\ resp' = StaffAccessRequired("create_bunny_upload", user)
             /\ UNCHANGED <<videos, nextVideoId>>
        ELSE IF ~is_configured
        THEN /\ resp' = Response("create_bunny_upload", user, "503")
             /\ UNCHANGED <<videos, nextVideoId>>
        ELSE \E result \in CreateVideoResults(nextVideoId) :
        IF ~result.ok
        THEN /\ resp' = [Response("create_bunny_upload", user, "500")
                            EXCEPT !.remote_calls = <<"create_video">>,
                                   !.body = [detail |-> "Failed to create video"]]
             /\ UNCHANGED <<videos, nextVideoId>>
        ELSE /\ nextVideoId <= MaxVideos
             /\ videos' = [id \in DOMAIN videos \cup {nextVideoId} |->
                              IF id = nextVideoId
                              THEN NewBunnyVideo(result.data.guid, user)
                              ELSE videos[id]]
             /\ nextVideoId' = nextVideoId + 1
             /\ resp' = VideoResponse("create_bunny_upload", user, "200", nextVideoId,
                                      None, <<"create_video">>, None,
                                      [video_id |-> nextVideoId, guid |-> result.data.guid,
                                       tus_headers |->
                                           generate_tus_auth_headers(result.data.guid,
                                                                     DefaultExpiresSeconds)])

\* confirm_status with the intermediate codes dropped, as in the poll handler
confirm_status_terminal_only(status, bunny_status) ==
    IF bunny_status = 4 THEN "ready"
    ELSE IF bunny_status = 5 THEN "failed"
    ELSE status

\* the status confirm_bunny_upload assigns for a remote code
confirm_status(status, bunny_status) ==
    IF bunny_status = 4 THEN "ready"
    ELSE IF bunny_status = 5 THEN "failed"
    ELSE IF bunny_status >= 1 THEN "processing"
    ELSE status

\* the row confirm_bunny_upload saves
confirm_row(video, bunny_data) ==
    WithMetadata([video EXCEPT !.status = confirm_status(@, Get(bunny_data, "status", 0))],
                 bunny_data)

\* the except branch of confirm_bunny_upload with the error swallowed, as the
\* poll handler does
confirm_fetch_failed_swallowed(user, video_id) ==
    VideoResponse("confirm_bunny_upload", user, "200", video_id,
                  Some(videos[video_id]), <<"get_video_status">>, None,
                  BunnyVideoSerializer(video_id, videos[video_id]))

\* "except Exception as e: return Response({'detail': ...}, status=500)"
confirm_fetch_failed(user, video_id) ==
    VideoResponse("confirm_bunny_upload", user, "500", video_id,
                  Some(videos[video_id]), <<"get_video_status">>, None,
                  [detail |-> "Failed to fetch video status"])

\* confirm_bunny_upload
confirm_bunny_upload(user, video_id) ==
        IF ~is_staff(user)
        THEN /\ resp' = StaffAccessRequired("confirm_bunny_upload", user)
             /\ UNCHANGED videos
        ELSE IF video_id \notin DOMAIN videos
        THEN /\ resp' = Response("confirm_bunny_upload", user, "404")
             /\ UNCHANGED videos
        ELSE \E result \in GetVideoStatusResults :
        IF ~result.ok
        THEN /\ resp' = confirm_fetch_failed(user, video_id)
             /\ UNCHANGED videos
        ELSE \E saved \in SaveResults :
             LET video == confirm_row(videos[video_id], result.data)
                 response == [VideoResponse("confirm_bunny_upload", user, "200", video_id,
                                            Some(videos[video_id]), <<"get_video_status">>,
                                            Some(result.data),
                                            BunnyVideoSerializer(video_id, video))
                                 EXCEPT !.save = Some(saved)]
             IN IF saved = "saved"
                THEN /\ videos' = [videos EXCEPT ![video_id] = saved_row(@, video)]
                     /\ resp' = response
                ELSE /\ resp' = ServerError(response, saved)
                     /\ UNCHANGED videos

\* the poll guard left out: the remote host is asked whatever the status
poll_calls_remote_always(status) == TRUE

\* "if video.status in ['uploading', 'processing']"
poll_calls_remote(status) == status \in {"uploading", "processing"}

\* poll_row with the ready branch left out
poll_row_never_ready(video, bunny_data) ==
    IF Get(bunny_data, "status", 0) = 5 THEN [video EXCEPT !.status = "failed"] ELSE video

\* the row check_video_status holds in memory after reading the payload
poll_row(video, bunny_data) ==
    LET bunny_status == Get(bunny_data, "status", 0) IN
    IF bunny_status = 4 THEN WithMetadata([video EXCEPT !.status = "ready"], bunny_data)
    ELSE IF bunny_status = 5 THEN [video EXCEPT !.status = "failed"]
    ELSE video

\* video.save() is called in the branches for codes 4 and 5 only
poll_saves(bunny_data) == Get(bunny_data, "status", 0) \in {4, 5}

\* the except branch of check_video_status answering with an error, as the
\* confirm handler does
poll_fetch_failed_reported(user, video_id) ==
    VideoResponse("check_video_status", user, "500", video_id,
                  Some(videos[video_id]), <<"get_video_status">>, None,
                  [detail |-> "Failed to fetch video status"])

\* "except Exception: pass", then the response built from the row as loaded
poll_fetch_failed(user, video_id) ==
    VideoResponse("check_video_status", user, "200", video_id,
                  Some(videos[video_id]), <<"get_video_status">>, None,
                  [status |-> videos[video_id].status,
                   video |-> BunnyVideoSerializer(video_id, videos[video_id])])

\* check_video_status
check_video_status(user, video_id) ==
        IF ~is_staff(user)
        THEN /\ resp' = StaffAccessRequired("check_video_status", user)
             /\ UNCHANGED videos
        ELSE IF video_id \notin DOMAIN videos
        THEN /\ resp' = Response("check_video_status", user, "404")
             /\ UNCHANGED videos
        ELSE IF ~poll_calls_remote(videos[video_id].status)
        THEN /\ resp' = VideoResponse("check_video_status", user, "200", video_id,
                                      Some(videos[video_id]), <<>>, None,
                                      [status |-> videos[video_id].status,
                                       video |-> BunnyVideoSerializer(video_id, videos[video_id])])
             /\ UNCHANGED videos
        ELSE \E result \in GetVideoStatusResults :
        IF ~result.ok
        THEN /\ resp' = poll_fetch_failed(user, video_id)
             /\ UNCHANGED videos
        ELSE LET video == poll_row(videos[video_id], result.data)
                 response == VideoResponse("check_video_status", user, "200", video_id,
                                           Some(videos[video_id]), <<"get_video_status">>,
                                           Some(result.data),
                                           [status |-> video.status,
                                            video |-> BunnyVideoSerializer(video_id, video)])
             IN IF ~poll_saves(result.data)
                THEN /\ resp' = response
                     /\ UNCHANGED videos
                ELSE \E saved \in SaveResults :
                     /\ resp' = [response EXCEPT !.save = Some(saved)]
                     /\ IF saved = "saved"
                        THEN videos' = [videos EXCEPT ![video_id] = saved_row(@, video)]
                        ELSE UNCHANGED videos

\* delete_rejected with the referential guard left out
delete_rejected_never(video_id) == FALSE

\* "if video.lessons.exists(): return Response(..., 400)"
delete_rejected(video_id) == InUse(video_id)

\* video.delete() skipped: the tables stay as they were
DeleteVideoRow_kept(video_id) ==
    /\ videos' = videos
    /\ lessons' = lessons

\* video.delete(): the row goes, and on_delete=SET_NULL clears Lesson.bunny_video
DeleteVideoRow(video_id) ==
    /\ videos' = [id \in DOMAIN videos \ {video_id} |-> videos[id]]
    /\ lessons' = [l \in DOMAIN lessons |->
                      IF lessons[l].bunny_video = Some(video_id)
                      THEN [lessons[l] EXCEPT !.bunny_video = None]
                      ELSE lessons[l]]

\* delete_bunny_video
delete_bunny_video(user, video_id) ==
        IF ~is_staff(user)
        THEN /\ resp' = StaffAccessRequired("delete_bunny_video", user)
             /\ UNCHANGED <<videos, lessons>>
        ELSE IF video_id \notin DOMAIN videos
        THEN /\ resp' = Response("delete_bunny_video", user, "404")
             /\ UNCHANGED <<videos, lessons>>
        ELSE IF delete_rejected(video_id)
        THEN /\ resp' = VideoResponse("delete_bunny_video", user, "400", video_id,
                                      Some(videos[video_id]), <<>>, None,
                                      [detail |-> "Cannot delete video that is in use by lessons."])
             /\ UNCHANGED <<videos, lessons>>
        ELSE \E result \in DeleteVideoResults :
             /\ DeleteVideoRow(video_id)
             /\ resp' = VideoResponse("delete_bunny_video", user, "200", video_id,
                                      Some(videos[video_id]), <<"delete_video">>, None,
                                      [status |-> "deleted", remote |-> result])

----------------------------------------------------------------------------
(* Thumbnail proxy and direct use of the URL generators *)

\* requests.get(signed_url) inside fetch_thumbnail_bytes: bytes or nothing
FetchResults == {"bytes", "none"}

\* list_bunny_videos: the ready rows, serialized
list_bunny_videos(user) ==
    resp' = IF ~is_staff(user)
            THEN StaffAccessRequired("list_bunny_videos", user)
            ELSE [Response("list_bunny_videos", user, "200")
                     EXCEPT !.body = [videos |->
                        {BunnyVideoSerializer(id, videos[id]) :
                            id \in {i \in DOMAIN videos : videos[i].status = "ready"}}]]

\* get_video_thumbnail
get_video_thumbnail(user, video_id) ==
        IF ~is_staff(user)
        THEN /\ resp' = StaffAccessRequired("get_video_thumbnail", user)
             /\ UNCHANGED cache
        ELSE IF video_id \notin DOMAIN videos
        THEN /\ resp' = Response("get_video_thumbnail", user, "404")
             /\ UNCHANGED cache
        ELSE IF videos[video_id].status # "ready"
        THEN /\ resp' = Response("get_video_thumbnail", user, "404")
             /\ UNCHANGED cache
        ELSE IF ~is_configured
        THEN /\ resp' = Response("get_video_thumbnail", user, "503")
             /\ UNCHANGED cache
        ELSE \E fetched \in FetchResults :
             LET r == generate_signed_thumbnail_url(videos[video_id].guid, DefaultExpiresHours) IN
             /\ cache' = r[2]
             /\ resp' = [Response("get_video_thumbnail", user,
                                  IF fetched = "bytes" THEN "200" ELSE "404")
                            EXCEPT !.video_id = Some(video_id),
                                   !.remote_calls = <<"thumbnail.jpg">>,
                                   !.body = [signed_url |-> r[1]]]

\* BunnyStreamService().generate_signed_url(guid, expires_hours) called as a
\* library function, with any horizon
GenerateSignedUrl(video_id, expires_hours) ==
    /\ video_id \in DOMAIN videos
    /\ LET r == generate_signed_url(videos[video_id].guid, expires_hours) IN
       /\ cache' = r[2]
       /\ resp' = [Response("generate_signed_url", Anonymous, "")
                      EXCEPT !.video_id = Some(video_id),
                             !.body = [expires_hours |-> expires_hours, signed_url |-> r[1]]]

\* BunnyStreamService().generate_tus_auth_headers(guid)
GenerateTusAuthHeaders(video_id) ==
    /\ video_id \in DOMAIN videos
    /\ resp' = [Response("generate_tus_auth_headers", Anonymous, "")
                   EXCEPT !.video_id = Some(video_id),
                          !.body = generate_tus_auth_headers(videos[video_id].guid,
                                                             DefaultExpiresSeconds)]
    /\ UNCHANGED cache

\* BunnyStreamService().generate_signed_thumbnail_url(guid, expires_hours)
GenerateSignedThumbnailUrl(video_id, expires_hours) ==
    /\ video_id \in DOMAIN videos
    /\ LET r == generate_signed_thumbnail_url(videos[video_id].guid, expires_hours) IN
       /\ cache' = r[2]
       /\ resp' = [Response("generate_signed_thumbnail_url", Anonymous, "")
                      EXCEPT !.video_id = Some(video_id),
                             !.body = [expires_hours |-> expires_hours, signed_url |-> r[1]]]

----------------------------------------------------------------------------
(* Lesson write path *)

VideoUrlInputs == {<<>>, <<"u">>}
BunnyVideoIdInputs == {None} \cup {Some(i) : i \in 0 .. MaxVideos}

\* serializer.validated_data: any subset of the writable fields, each with any
\* of its values
ValidatedData ==
    {u @@ b @@ f :
        u \in {EmptyDict} \cup {[video_url |-> x] : x \in VideoUrlInputs},
        b \in {EmptyDict} \cup {[bunny_video_id |-> x] : x \in BunnyVideoIdInputs},
        f \in {EmptyDict} \cup {[is_free_preview |-> x] : x \in BOOLEAN}}

\* validated_data after pop('bunny_video_id', None)
Popped(validated_data) ==
    [k \in DOMAIN validated_data \ {"bunny_video_id"} |-> validated_data[k]]

\* ModelSerializer.update: setattr for every validated field, then save()
SetAttrs(instance, data) ==
    [f \in DOMAIN instance |-> IF f \in DOMAIN data THEN data[f] ELSE instance[f]]

\* the model's field defaults, for Lesson.objects.create(**validated_data)
LessonDefaults(course) ==
    [course |-> course, video_url |-> <<>>, bunny_video |-> None,
     is_free_preview |-> FALSE]

\* LessonWriteSerializer.update
LessonWriteSerializer_update(instance, validated_data) ==
    LET bunny_video_id == Get(validated_data, "bunny_video_id", None)
        data == Popped(validated_data)
        bound ==
            IF bunny_video_id # None
            THEN IF bunny_video_id[1] \in DOMAIN videos
                 THEN [instance EXCEPT !.bunny_video = bunny_video_id, !.video_url = <<>>]
                 ELSE instance
            ELSE IF "video_url" \in DOMAIN data /\ data["video_url"] # <<>>
                 THEN [instance EXCEPT !.bunny_video = None]
                 ELSE instance
    IN SetAttrs(bound, data)

\* LessonWriteSerializer.create
LessonWriteSerializer_create(course, validated_data) ==
    LET bunny_video_id == Get(validated_data, "bunny_video_id", None)
        instance == SetAttrs(LessonDefaults(course), Popped(validated_data))
    IN IF bunny_video_id # None /\ bunny_video_id[1] # 0
          /\ bunny_video_id[1] \in DOMAIN videos
       THEN [instance EXCEPT !.bunny_video = bunny_video_id, !.video_url = <<>>]
       ELSE instance

\* StaffLessonListCreateView, POST
StaffLessonCreate(user, course, validated_data) ==
    IF ~IsStaff(user)
    THEN /\ resp' = Response("StaffLessonCreate", user, "permission_denied")
         /\ UNCHANGED <<lessons, nextLessonId>>
    ELSE /\ nextLessonId <= MaxLessons
         /\ lessons' = [l \in DOMAIN lessons \cup {nextLessonId} |->
                           IF l = nextLessonId
                           THEN LessonWriteSerializer_create(course, validated_data)
                           ELSE lessons[l]]
         /\ nextLessonId' = nextLessonId + 1
         /\ resp' = LessonResponse("StaffLessonCreate", user, "201", nextLessonId, None)

\* StaffLessonDetailView, PUT and PATCH
StaffLessonUpdate(user, lesson_id, validated_data) ==
    IF ~IsStaff(user)
    THEN /\ resp' = Response("StaffLessonUpdate", user, "permission_denied")
         /\ UNCHANGED lessons
    ELSE IF lesson_id \notin DOMAIN lessons
    THEN /\ resp' = Response("StaffLessonUpdate", user, "404")
         /\ UNCHANGED lessons
    ELSE /\ lessons' = [lessons EXCEPT
                           ![lesson_id] = LessonWriteSerializer_update(@, validated_data)]
         /\ resp' = LessonResponse("StaffLessonUpdate", user, "200", lesson_id, None)

----------------------------------------------------------------------------
(* Lesson read path *)

\* LessonSerializer(lesson, context={'request': request}).data: the serializer
\* on its own, for any request it is handed
LessonSerializerData(user, lesson_id) ==
    /\ lesson_id \in DOMAIN lessons
    /\ LET r == get_signed_video_url(user, lessons[lesson_id]) IN
       /\ cache' = r[2]
       /\ resp' = LessonResponse("LessonSerializer", user, "200", lesson_id, r[1])

\* LessonDetailView.get_object and retrieve
LessonDetailView(user, lesson_id) ==
    IF lesson_id \notin DOMAIN lessons
    THEN /\ resp' = Response("LessonDetailView", user, "404")
         /\ UNCHANGED cache
    ELSE IF ~IsEnrolledOrFreePreview(user, lessons[lesson_id])
    THEN /\ resp' = LessonResponse("LessonDetailView", user, "permission_denied",
                                    lesson_id, None)
         /\ UNCHANGED cache
    ELSE LET r == get_signed_video_url(user, lessons[lesson_id]) IN
         /\ cache' = r[2]
         /\ resp' = LessonResponse("LessonDetailView", user, "200", lesson_id, r[1])

----------------------------------------------------------------------------
(* Enrollment and the clock *)

\* Course.objects.get(saleor_product_id=product_id): a course is sold under
\* its own name; any other product is no course
CourseOfProduct(product_id) == IF product_id \in Courses THEN Some(product_id) ELSE None

\* a write that overwrites the order of an enrollment that exists
Enrollment_update_or_create(rows, user, course, order_id) ==
    {e \in rows : ~(e.user = user /\ e.course = course)}
        \cup {[user |-> user, course |-> course, saleor_order_id |-> order_id]}

\* Enrollment.objects.get_or_create(user, course, defaults={'saleor_order_id': order_id}):
\* the table afterwards
Enrollment_get_or_create(rows, user, course, order_id) ==
    IF \E e \in rows : e.user = user /\ e.course = course
    THEN rows
    ELSE rows \cup {[user |-> user, course |-> course, saleor_order_id |-> order_id]}

\* "for line in order_lines": <<table afterwards, enrollments_created>>
RECURSIVE process_lines(_, _, _, _, _)
process_lines(rows, created, user, order_id, order_lines) ==
    IF order_lines = <<>>
    THEN <<rows, created>>
    ELSE LET product_id == Head(order_lines)
             course == CourseOfProduct(product_id)
         IN IF product_id = "" \/ course = None
            THEN process_lines(rows, created, user, order_id, Tail(order_lines))
            ELSE LET after == Enrollment_get_or_create(rows, user, course[1], order_id)
                 IN process_lines(after,
                                  IF after # rows THEN Append(created, course[1]) ELSE created,
                                  user, order_id, Tail(order_lines))

\* saleor_order_webhook. The customer's address is the one of an account
\* (get_or_create_user_by_email finds it), or is missing from the order.
saleor_order_webhook(signature_valid, customer_email, order_id, order_lines) ==
    IF ~signature_valid
    THEN /\ resp' = Response("saleor_order_webhook", Anonymous, "401")
         /\ UNCHANGED enrollments
    ELSE IF customer_email = ""
    THEN /\ resp' = Response("saleor_order_webhook", Anonymous, "400")
         /\ UNCHANGED enrollments
    ELSE LET r == process_lines(enrollments, <<>>, customer_email, order_id, order_lines) IN
         /\ enrollments' = r[1]
         /\ resp' = [Response("saleor_order_webhook", customer_email, "200")
                        EXCEPT !.body = [order_id |-> order_id,
                                         order_lines |-> order_lines,
                                         enrollments_created |-> r[2]]]

\* LessonProgress as get_or_create(user, lesson) creates it
NewLessonProgress ==
    [completed |-> FALSE, completed_at |-> None, video_position_seconds |-> 0]

\* the completion branch stamping the time at every completed=true
set_completed_restamped(row, validated_data) ==
    IF "completed" \in DOMAIN validated_data
    THEN IF validated_data.completed
         THEN [row EXCEPT !.completed = TRUE, !.completed_at = Some(now)]
         ELSE [row EXCEPT !.completed = FALSE, !.completed_at = None]
    ELSE row

\* "if 'completed' in serializer.validated_data: ..."
set_completed(row, validated_data) ==
    IF "completed" \in DOMAIN validated_data
    THEN IF validated_data.completed /\ ~row.completed
         THEN [row EXCEPT !.completed = TRUE, !.completed_at = Some(now)]
         ELSE IF ~validated_data.completed
         THEN [row EXCEPT !.completed = FALSE, !.completed_at = None]
         ELSE row
    ELSE row

\* "if 'video_position_seconds' in serializer.validated_data: ..."
set_video_position(row, validated_data) ==
    IF "video_position_seconds" \in DOMAIN validated_data
    THEN [row EXCEPT !.video_position_seconds = validated_data.video_position_seconds]
    ELSE row

\* update_lesson_progress
update_lesson_progress(user, lesson_id, validated_data) ==
    IF lesson_id \notin DOMAIN lessons
    THEN /\ resp' = Response("update_lesson_progress", user, "404")
         /\ UNCHANGED progress
    ELSE IF ~IsEnrolled(user, lessons[lesson_id].course)
    THEN /\ resp' = [Response("update_lesson_progress", user, "403")
                        EXCEPT !.lesson_id = Some(lesson_id)]
         /\ UNCHANGED progress
    ELSE LET key == <<user, lesson_id>>
             row == IF key \in DOMAIN progress THEN progress[key] ELSE NewLessonProgress
             updated == set_video_position(set_completed(row, validated_data), validated_data)
         IN /\ progress' = [k \in DOMAIN progress \cup {key} |->
                                IF k = key THEN updated ELSE progress[k]]
            /\ resp' = [Response("update_lesson_progress", user, "200")
                           EXCEPT !.lesson_id = Some(lesson_id),
                                  !.before = IF key \in DOMAIN progress
                                             THEN Some(progress[key]) ELSE None,
                                  !.body = [validated_data |-> validated_data,
                                            completed |-> updated.completed,
                                            video_position_seconds |->
                                                updated.video_position_seconds,
                                            completed_at |-> updated.completed_at]]

\* UserAddress.objects.filter(user=user, is_default=True)
DefaultAddresses(rows, user) ==
    {id \in DOMAIN rows : rows[id].user = user /\ rows[id].is_default}

\* queryset.update(is_default=False) over the rows of ids
UnsetDefault(rows, ids) ==
    [id \in DOMAIN rows |-> IF id \in ids THEN [rows[id] EXCEPT !.is_default = FALSE]
                                           ELSE rows[id]]

\* a save() that writes the row and nothing else
UserAddress_save_plain(rows, pk, row) ==
    [id \in DOMAIN rows \cup {pk} |-> IF id = pk THEN row ELSE rows[id]]

\* UserAddress.save: the table afterwards
UserAddress_save(rows, pk, row) ==
    LET others == IF row.is_default
                  THEN UnsetDefault(rows, DefaultAddresses(rows, row.user) \ {pk})
                  ELSE rows
    IN [id \in DOMAIN rows \cup {pk} |-> IF id = pk THEN row ELSE others[id]]

\* UserAddressViewSet.get_queryset
OwnAddresses(user) == {id \in DOMAIN addresses : addresses[id].user = user}

AddressResponse(op, user, http, pk, unset) ==
    [Response(op, user, http) EXCEPT !.body = [id |-> pk, unset |-> unset]]

\* UserAddressViewSet.perform_create (POST)
perform_create(user, validated_data) ==
    LET is_first_address == OwnAddresses(user) = {}
        row == [user |-> user,
                label |-> Get(validated_data, "label", ""),
                is_default |-> is_first_address \/ Get(validated_data, "is_default", FALSE)]
    IN /\ addresses' = UserAddress_save(addresses, nextAddressId, row)
       /\ nextAddressId' = nextAddressId + 1
       /\ resp' = AddressResponse("perform_create", user, "201", nextAddressId,
                                  IF row.is_default THEN DefaultAddresses(addresses, user) ELSE {})

\* UserAddressViewSet.update (PUT, PATCH): serializer.save() on the row
perform_update(user, pk, validated_data) ==
    IF pk \notin OwnAddresses(user)
    THEN /\ resp' = AddressResponse("perform_update", user, "404", pk, {})
         /\ UNCHANGED addresses
    ELSE LET row == SetAttrs(addresses[pk], validated_data) IN
         /\ addresses' = UserAddress_save(addresses, pk, row)
         /\ resp' = AddressResponse("perform_update", user, "200", pk,
                                    IF row.is_default
                                    THEN DefaultAddresses(addresses, user) \ {pk} ELSE {})

\* UserAddressViewSet.set_default
set_default(user, pk) ==
    IF pk \notin OwnAddresses(user)
    THEN /\ resp' = AddressResponse("set_default", user, "404", pk, {})
         /\ UNCHANGED addresses
    ELSE LET address == addresses[pk]
             unset == UnsetDefault(addresses, DefaultAddresses(addresses, user))
         IN /\ addresses' = UserAddress_save(unset, pk, [address EXCEPT !.is_default = TRUE])
            /\ resp' = AddressResponse("set_default", user, "200", pk,
                                       DefaultAddresses(addresses, user))

\* UserAddressViewSet.destroy (DELETE)
perform_destroy(user, pk) ==
    IF pk \notin OwnAddresses(user)
    THEN /\ resp' = AddressResponse("perform_destroy", user, "404", pk, {})
         /\ UNCHANGED addresses
    ELSE /\ addresses' = [id \in DOMAIN addresses \ {pk} |-> addresses[id]]
         /\ resp' = AddressResponse("perform_destroy", user, "204", pk, {})

\* The service is restarted with other settings: BunnyStreamService reads
\* django.conf.settings anew in every request, while the tables persist.
restart(new_settings) ==
    /\ new_settings # settings
    /\ settings' = new_settings
    /\ resp' = Response("restart", Anonymous, "")

\* time passes, one hour at a time
Tick ==
    /\ now < MaxTicks * SecondsPerHour
    /\ now' = now + SecondsPerHour

----------------------------------------------------------------------------
(* Requests served concurrently *)

\* the web server's workers, each serving one request at a time
Workers == 1 .. MaxWorkers

\* a worker's position in its handler (pc) and the handler's local variables
Idle ==
    [pc |-> "idle", video_id |-> None, video |-> None, loaded |-> None,
     bunny_data |-> None, wrote |-> FALSE, expires_hours |-> None,
     signed_url |-> None, returned |-> None]

\* the video a worker's handler was asked for
Guid_of(w) == videos[workers[w].video_id[1]].guid

\* check_video_status up to the test of the status: get_object_or_404 loads
\* the row into the handler's instance
check_video_status_load(w, video_id) ==
    /\ workers[w].pc = "idle"
    /\ video_id \in DOMAIN videos
    /\ workers' = [workers EXCEPT ![w] =
           [@ EXCEPT !.video_id = Some(video_id),
                     !.video = Some(videos[video_id]),
                     !.loaded = Some(videos[video_id]),
                     !.pc = IF poll_calls_remote(videos[video_id].status)
                            THEN "fetch" ELSE "respond"]]
    /\ UNCHANGED videos

\* service.get_video_status(video.guid) and the assignments to the instance
check_video_status_fetch(w) ==
    /\ workers[w].pc = "fetch"
    /\ \E result \in {RemoteError, [ok |-> TRUE, data |-> remote[1]]} :
          workers' = [workers EXCEPT ![w] =
              IF ~result.ok
              THEN [@ EXCEPT !.pc = "respond"]
              ELSE [@ EXCEPT !.bunny_data = Some(result.data),
                             !.video = Some(poll_row(workers[w].video[1], result.data)),
                             !.pc = IF poll_saves(result.data) THEN "save" ELSE "respond"]]
    /\ UNCHANGED videos

\* video.save()
check_video_status_save(w) ==
    /\ workers[w].pc = "save"
    /\ \E saved \in SaveResults :
          IF saved = "saved"
          THEN /\ videos' = [videos EXCEPT ![workers[w].video_id[1]] =
                                 saved_row(@, workers[w].video[1])]
               /\ workers' = [workers EXCEPT ![w] = [@ EXCEPT !.wrote = TRUE, !.pc = "respond"]]
          ELSE /\ workers' = [workers EXCEPT ![w] = [@ EXCEPT !.pc = "respond"]]
               /\ UNCHANGED videos

\* return Response({'status': video.status, 'video': ...})
check_video_status_respond(w) ==
    /\ workers[w].pc = "respond"
    /\ workers' = [workers EXCEPT ![w] =
           [@ EXCEPT !.returned = Some([status |-> workers[w].video[1].status]), !.pc = "done"]]
    /\ UNCHANGED videos

\* confirm_bunny_upload up to the remote call: get_object_or_404 loads the row
confirm_bunny_upload_load(w, video_id) ==
    /\ workers[w].pc = "idle"
    /\ video_id \in DOMAIN videos
    /\ workers' = [workers EXCEPT ![w] =
           [@ EXCEPT !.video_id = Some(video_id),
                     !.video = Some(videos[video_id]),
                     !.loaded = Some(videos[video_id]),
                     !.pc = "confirm_fetch"]]
    /\ UNCHANGED videos

\* service.get_video_status(video.guid), then the assignments to the instance,
\* or the 500 of the except branch
confirm_bunny_upload_fetch(w) ==
    /\ workers[w].pc = "confirm_fetch"
    /\ \E result \in {RemoteError, [ok |-> TRUE, data |-> remote[1]]} :
          workers' = [workers EXCEPT ![w] =
              IF ~result.ok
              THEN [@ EXCEPT !.returned = Some([status |-> "500"]), !.pc = "confirmed"]
              ELSE [@ EXCEPT !.bunny_data = Some(result.data),
                             !.video = Some(confirm_row(workers[w].video[1], result.data)),
                             !.pc = "confirm_save"]]
    /\ UNCHANGED videos

\* video.save() and the response
confirm_bunny_upload_save(w) ==
    /\ workers[w].pc = "confirm_save"
    /\ \E saved \in SaveResults :
          IF saved = "saved"
          THEN /\ videos' = [videos EXCEPT ![workers[w].video_id[1]] =
                                 saved_row(@, workers[w].video[1])]
               /\ workers' = [workers EXCEPT ![w] =
                      [@ EXCEPT !.wrote = TRUE,
                                !.returned = Some([status |-> workers[w].video[1].status]),
                                !.pc = "confirmed"]]
          ELSE /\ workers' = [workers EXCEPT ![w] =
                      [@ EXCEPT !.returned = Some([status |-> "500"]), !.pc = "confirmed"]]
               /\ UNCHANGED videos

\* the request is answered and the worker takes the next one
serve_next(w) ==
    /\ workers[w].pc = "done"
    /\ workers' = [workers EXCEPT ![w] = Idle]

\* the remote host reports something else, until it reports code 4, which it
\* keeps reporting
remote_change(bunny_data) ==
    /\ remote # None
    /\ remote[1].status # 4
    /\ bunny_data # remote[1]
    /\ remote' = Some(bunny_data)

\* the remote host moves the video on: its status code only grows
remote_progress(bunny_data) ==
    /\ remote # None
    /\ bunny_data.status > remote[1].status
    /\ remote' = Some(bunny_data)

\* delete_bunny_video up to the remote call: get_object_or_404 and the test
\* "if video.lessons.exists()"
delete_bunny_video_check(w, video_id) ==
    /\ workers[w].pc = "idle"
    /\ video_id \in DOMAIN videos
    /\ workers' = [workers EXCEPT ![w] =
           IF delete_rejected(video_id)
           THEN [@ EXCEPT !.video_id = Some(video_id),
                          !.returned = Some([status |-> "400"]),
                          !.pc = "deleted"]
           ELSE [@ EXCEPT !.video_id = Some(video_id),
                          !.loaded = Some(videos[video_id]),
                          !.pc = "delete_remote"]]
    /\ UNCHANGED <<videos, lessons>>

\* service.delete_video(video.guid), whatever it returns or raises
delete_bunny_video_remote(w) ==
    /\ workers[w].pc = "delete_remote"
    /\ \E result \in DeleteVideoResults :
          workers' = [workers EXCEPT ![w] = [@ EXCEPT !.pc = "delete_row"]]
    /\ UNCHANGED <<videos, lessons>>

\* video.delete() and the response
delete_bunny_video_row(w) ==
    /\ workers[w].pc = "delete_row"
    /\ DeleteVideoRow(workers[w].video_id[1])
    /\ workers' = [workers EXCEPT ![w] =
           [@ EXCEPT !.wrote = TRUE, !.returned = Some([status |-> "deleted"]),
                     !.pc = "deleted"]]

\* generate_signed_url up to "if cached: return cached"
generate_signed_url_get(w, video_id, expires_hours) ==
    /\ workers[w].pc = "idle"
    /\ video_id \in DOMAIN videos
    /\ LET cached == CacheGet(PlaybackKey(videos[video_id].guid)) IN
       workers' = [workers EXCEPT ![w] =
           IF cached # None
           THEN [@ EXCEPT !.video_id = Some(video_id), !.returned = cached, !.pc = "done"]
           ELSE [@ EXCEPT !.video_id = Some(video_id),
                          !.expires_hours = Some(expires_hours),
                          !.pc = "compute"]]
    /\ UNCHANGED cache

\* expiry = int(time.time()) + ..., the token and the URL
generate_signed_url_compute(w) ==
    /\ workers[w].pc = "compute"
    /\ workers' = [workers EXCEPT ![w] =
           [@ EXCEPT !.signed_url = Some(SignedUrl(Guid_of(w), workers[w].expires_hours[1])),
                     !.pc = "set"]]
    /\ UNCHANGED cache

\* cache.set with the URL computed again at the time of the set
generate_signed_url_set_recomputed(w) ==
    /\ workers[w].pc = "set"
    /\ cache' = CacheSet(PlaybackKey(Guid_of(w)),
                         SignedUrl(Guid_of(w), workers[w].expires_hours[1]),
                         SignedUrlCacheTimeout(workers[w].expires_hours[1]))
    /\ workers' = [workers EXCEPT ![w] = [@ EXCEPT !.returned = workers[w].signed_url, !.pc = "done"]]

\* cache.set(cache_key, signed_url, timeout=5 * 3600); return signed_url
generate_signed_url_set(w) ==
    /\ workers[w].pc = "set"
    /\ cache' = CacheSet(PlaybackKey(Guid_of(w)), workers[w].signed_url[1],
                         SignedUrlCacheTimeout(workers[w].expires_hours[1]))
    /\ workers' = [workers EXCEPT ![w] = [@ EXCEPT !.returned = workers[w].signed_url, !.pc = "done"]]

----------------------------------------------------------------------------
(* The specification *)

Init ==
    /\ settings \in {ConfiguredSettings, UnconfiguredSettings}
    /\ videos = <<>>
    /\ nextVideoId = 1
    /\ lessons = <<>>
    /\ nextLessonId = 1
    /\ enrollments = {}
    /\ cache = <<>>
    /\ now = 0
    /\ resp = Response("none", Anonymous, "")
    /\ workers = [w \in Workers |-> Idle]
    /\ progress = <<>>
    /\ addresses = <<>>
    /\ nextAddressId = 1
    /\ remote = None

VideoIds == 1 .. MaxVideos
LessonIds == 1 .. MaxLessons

CreateUpload ==
    /\ \E user \in Users : create_bunny_upload(user)
    /\ UNCHANGED <<settings, progress, addresses, nextAddressId, workers, remote, lessons, nextLessonId, enrollments, cache, now>>

Confirm ==
    /\ \E user \in Users, video_id \in VideoIds : confirm_bunny_upload(user, video_id)
    /\ UNCHANGED <<settings, progress, addresses, nextAddressId, workers, remote, nextVideoId, lessons, nextLessonId, enrollments, cache, now>>

Poll ==
    /\ \E user \in Users, video_id \in VideoIds : check_video_status(user, video_id)
    /\ UNCHANGED <<settings, progress, addresses, nextAddressId, workers, remote, nextVideoId, lessons, nextLessonId, enrollments, cache, now>>

Delete ==
    /\ \E user \in Users, video_id \in VideoIds : delete_bunny_video(user, video_id)
    /\ UNCHANGED <<settings, progress, addresses, nextAddressId, workers, remote, nextVideoId, nextLessonId, enrollments, cache, now>>

Thumbnail ==
    /\ \E user \in Users, video_id \in VideoIds : get_video_thumbnail(user, video_id)
    /\ UNCHANGED <<settings, progress, addresses, nextAddressId, workers, remote, videos, nextVideoId, lessons, nextLessonId, enrollments, now>>

List ==
    /\ \E user \in Users : list_bunny_videos(user)
    /\ UNCHANGED <<settings, progress, addresses, nextAddressId, workers, remote, videos,
                   nextVideoId, lessons, nextLessonId, enrollments, cache, now>>

SignUrl ==
    /\ \E video_id \in VideoIds, h \in ExpiresHours : GenerateSignedUrl(video_id, h)
    /\ UNCHANGED <<settings, progress, addresses, nextAddressId, workers, remote, videos, nextVideoId, lessons, nextLessonId, enrollments, now>>

SignThumbnailUrl ==
    /\ \E video_id \in VideoIds, h \in ExpiresHours : GenerateSignedThumbnailUrl(video_id, h)
    /\ UNCHANGED <<settings, progress, addresses, nextAddressId, workers, remote, videos, nextVideoId, lessons, nextLessonId, enrollments, now>>

TusHeaders ==
    /\ \E video_id \in VideoIds : GenerateTusAuthHeaders(video_id)
    /\ UNCHANGED <<settings, progress, addresses, nextAddressId, workers, remote, videos,
                   nextVideoId, lessons, nextLessonId, enrollments, now>>

LessonCreate ==
    /\ \E user \in Viewers :
          IF IsStaff(user)
          THEN \E course \in Courses, data \in ValidatedData :
                  StaffLessonCreate(user, course, data)
          ELSE StaffLessonCreate(user, "c1", EmptyDict)
    /\ UNCHANGED <<settings, progress, addresses, nextAddressId, workers, remote, videos, nextVideoId, enrollments, cache, now>>

LessonUpdate ==
    /\ \E user \in Viewers :
          IF IsStaff(user)
          THEN \E lesson_id \in LessonIds, data \in ValidatedData :
                  StaffLessonUpdate(user, lesson_id, data)
          ELSE StaffLessonUpdate(user, 1, EmptyDict)
    /\ UNCHANGED <<settings, progress, addresses, nextAddressId, workers, remote, videos, nextVideoId, nextLessonId, enrollments, cache, now>>

SerializeLesson ==
    /\ \E user \in Viewers, lesson_id \in LessonIds : LessonSerializerData(user, lesson_id)
    /\ UNCHANGED <<settings, progress, addresses, nextAddressId, workers, remote, videos, nextVideoId, lessons, nextLessonId, enrollments, now>>

LessonDetail ==
    /\ \E user \in Viewers, lesson_id \in LessonIds : LessonDetailView(user, lesson_id)
    /\ UNCHANGED <<settings, progress, addresses, nextAddressId, workers, remote, videos, nextVideoId, lessons, nextLessonId, enrollments, now>>

\* orders, products and the lines of an order
Orders == {"o1", "o2"}
Products == Courses \cup {"", "p0"}
MaxLines == 2
OrderLines == UNION {[1 .. n -> Products] : n \in 0 .. MaxLines}

\* an order of one course
Enroll ==
    /\ \E user \in Users, course \in Courses :
          saleor_order_webhook(TRUE, user, "o1", <<course>>)
    /\ UNCHANGED <<settings, progress, addresses, nextAddressId, workers, remote, videos, nextVideoId, lessons, nextLessonId, cache, now>>

\* any delivery: any order, delivered any number of times
Webhook ==
    /\ \E signature_valid \in BOOLEAN, customer_email \in Users \cup {""},
          order_id \in Orders, order_lines \in OrderLines :
          saleor_order_webhook(signature_valid, customer_email, order_id, order_lines)
    /\ UNCHANGED <<settings, progress, addresses, nextAddressId, workers, remote, videos,
                   nextVideoId, lessons, nextLessonId, cache, now>>

Restart ==
    /\ \E new_settings \in {ConfiguredSettings, UnconfiguredSettings} : restart(new_settings)
    /\ UNCHANGED <<workers, remote, videos, nextVideoId, lessons, nextLessonId, enrollments,
                   cache, now, progress, addresses, nextAddressId>>

Clock ==
    /\ Tick
    /\ UNCHANGED <<settings, progress, addresses, nextAddressId, workers, remote, videos, nextVideoId, lessons, nextLessonId, enrollments,
                   cache, resp>>

\* the video lifecycle and the lesson-video binding
Next ==
    \/ CreateUpload
    \/ Confirm
    \/ Poll
    \/ Delete
    \/ LessonCreate
    \/ LessonUpdate
    \/ Restart

Spec == Init /\ [][Next]_vars

\* the video-management endpoints
NextManage ==
    \/ List
    \/ CreateUpload
    \/ Confirm
    \/ Poll
    \/ Delete
    \/ Thumbnail

SpecManage == Init /\ [][NextManage]_vars

\* the access decision over the rows the staff handlers produce
NextAccess ==
    \/ CreateUpload
    \/ Confirm
    \/ LessonCreate
    \/ Enroll
    \/ SerializeLesson
    \/ LessonDetail

SpecAccess == Init /\ [][NextAccess]_vars

\* request bodies LessonProgressUpdateSerializer accepts
ProgressData ==
    {EmptyDict} \cup {[completed |-> c] : c \in BOOLEAN}
        \cup {[video_position_seconds |-> 5]}
        \cup {[completed |-> c, video_position_seconds |-> 5] : c \in BOOLEAN}

\* a lesson of course c1 exists; alice has bought the course, sam has not
InitProgress ==
    /\ settings = ConfiguredSettings
    /\ videos = <<>>
    /\ nextVideoId = 1
    /\ lessons = [id \in {1} |-> LessonWriteSerializer_create("c1", EmptyDict)]
    /\ nextLessonId = 2
    /\ enrollments = Enrollment_get_or_create({}, "alice", "c1", "o1")
    /\ cache = <<>>
    /\ now = 0
    /\ resp = Response("none", Anonymous, "")
    /\ workers = [w \in Workers |-> Idle]
    /\ progress = <<>>
    /\ addresses = <<>>
    /\ nextAddressId = 1
    /\ remote = None

Progress ==
    /\ \E user \in Users, lesson_id \in 1 .. nextLessonId, validated_data \in ProgressData :
          update_lesson_progress(user, lesson_id, validated_data)
    /\ UNCHANGED <<settings, addresses, nextAddressId, workers, remote, videos,
                   nextVideoId, lessons, nextLessonId, enrollments, cache, now>>

\* progress reported while time passes
NextProgress ==
    \/ Progress
    \/ Clock

SpecProgress == InitProgress /\ [][NextProgress]_vars

\* request bodies UserAddressSerializer accepts, as far as they matter here
AddressData ==
    {EmptyDict} \cup {[is_default |-> d] : d \in BOOLEAN}
        \cup {[label |-> "Work"]}
        \cup {[label |-> "Work", is_default |-> d] : d \in BOOLEAN}

AddressIds == 1 .. MaxAddresses

AddressCreate ==
    /\ nextAddressId <= MaxAddresses
    /\ \E user \in Users, validated_data \in AddressData : perform_create(user, validated_data)
    /\ UNCHANGED <<settings, progress, workers, remote, videos, nextVideoId, lessons,
                   nextLessonId, enrollments, cache, now>>

AddressUpdate ==
    /\ \E user \in Users, pk \in AddressIds, validated_data \in AddressData :
          perform_update(user, pk, validated_data)
    /\ UNCHANGED <<settings, progress, nextAddressId, workers, remote, videos, nextVideoId,
                   lessons, nextLessonId, enrollments, cache, now>>

AddressSetDefault ==
    /\ \E user \in Users, pk \in AddressIds : set_default(user, pk)
    /\ UNCHANGED <<settings, progress, nextAddressId, workers, remote, videos, nextVideoId,
                   lessons, nextLessonId, enrollments, cache, now>>

AddressDestroy ==
    /\ \E user \in Users, pk \in AddressIds : perform_destroy(user, pk)
    /\ UNCHANGED <<settings, progress, nextAddressId, workers, remote, videos, nextVideoId,
                   lessons, nextLessonId, enrollments, cache, now>>

\* the address book
NextAddress ==
    \/ AddressCreate
    \/ AddressUpdate
    \/ AddressSetDefault
    \/ AddressDestroy

SpecAddress == Init /\ [][NextAddress]_vars

\* deliveries of order webhooks
NextWebhook == Webhook

SpecWebhook == Init /\ [][NextWebhook]_vars

\* the signed-URL generators, their cache and the clock
NextSign ==
    \/ CreateUpload
    \/ Confirm
    \/ Thumbnail
    \/ SignUrl
    \/ SignThumbnailUrl
    \/ TusHeaders
    \/ Clock

SpecSign == Init /\ [][NextSign]_vars

\* inputs of the token computation: security keys, guids and expiry times
SecurityKeys == {<<"s">>, <<"s", "g">>}
TokenGuids == {<<"g">>, <<"g", "1">>, <<"1">>}
Expiries == {1, 2, 11, 12}

\* the token of one triple, computed after the token of another
PlaybackToken ==
    /\ \E security_key \in SecurityKeys, guid \in TokenGuids, expiry \in Expiries :
          resp' = [Response("playback_token", Anonymous, "")
                      EXCEPT !.before = IF resp.op = "playback_token"
                                        THEN Some(resp.body) ELSE None,
                             !.body = [security_key |-> security_key, guid |-> guid,
                                       expiry |-> expiry,
                                       token |-> playback_token(security_key, guid, expiry)]]
    /\ UNCHANGED <<settings, progress, addresses, nextAddressId, workers, remote, videos,
                   nextVideoId, lessons, nextLessonId, enrollments, cache, now>>

NextToken == PlaybackToken

\* the playback token as a function of its inputs
SpecToken == Init /\ [][NextToken]_vars

\* rows a video that is not yet ready or failed can hold: as created, or as a
\* confirm that read code 1, 2 or 3 left it
NonTerminalRows ==
    LET created == NewBunnyVideo(Guid(1), "sam") IN
    {created} \cup {confirm_row(created, d) : d \in {b \in BunnyData : b.status \in 1 .. 3}}

\* rows of a video that became ready
ReadyRows ==
    {confirm_row(NewBunnyVideo(Guid(1), "sam"), d) : d \in {b \in BunnyData : b.status = 4}}

\* one stored video, whose remote state stays as it is while polls are served
InitPollRace ==
    /\ settings \in {ConfiguredSettings, UnconfiguredSettings}
    /\ \E row \in NonTerminalRows : videos = [id \in {1} |-> row]
    /\ nextVideoId = 2
    /\ lessons = <<>>
    /\ nextLessonId = 1
    /\ enrollments = {}
    /\ cache = <<>>
    /\ now = 0
    /\ resp = Response("none", Anonymous, "")
    /\ workers = [w \in Workers |-> Idle]
    /\ progress = <<>>
    /\ addresses = <<>>
    /\ nextAddressId = 1
    /\ remote \in {Some(d) : d \in BunnyData}

PollLoad ==
    /\ \E w \in Workers, video_id \in VideoIds : check_video_status_load(w, video_id)
    /\ UNCHANGED <<settings, progress, addresses, nextAddressId, remote, nextVideoId, lessons, nextLessonId, enrollments, cache,
                   now, resp>>

PollFetch ==
    /\ \E w \in Workers : check_video_status_fetch(w)
    /\ UNCHANGED <<settings, progress, addresses, nextAddressId, remote, nextVideoId, lessons, nextLessonId, enrollments, cache,
                   now, resp>>

PollSave ==
    /\ \E w \in Workers : check_video_status_save(w)
    /\ UNCHANGED <<settings, progress, addresses, nextAddressId, remote, nextVideoId, lessons, nextLessonId, enrollments, cache,
                   now, resp>>

PollRespond ==
    /\ \E w \in Workers : check_video_status_respond(w)
    /\ UNCHANGED <<settings, progress, addresses, nextAddressId, remote, nextVideoId, lessons, nextLessonId, enrollments, cache,
                   now, resp>>

\* polls of one video served concurrently, step by step
NextPollRace ==
    \/ PollLoad
    \/ PollFetch
    \/ PollSave
    \/ PollRespond

SpecPollRace == InitPollRace /\ [][NextPollRace]_vars

\* a worker is serving, or has served, a confirm
Confirming(w) == workers[w].pc \in {"confirm_fetch", "confirm_save", "confirmed"}

\* one confirm is served at a time besides the polls
ConfirmLoad ==
    /\ \A v \in Workers : ~Confirming(v)
    /\ \E w \in Workers, video_id \in VideoIds : confirm_bunny_upload_load(w, video_id)
    /\ UNCHANGED <<settings, progress, addresses, nextAddressId, remote, nextVideoId, lessons,
                   nextLessonId, enrollments, cache, now, resp>>

ConfirmFetch ==
    /\ \E w \in Workers : confirm_bunny_upload_fetch(w)
    /\ UNCHANGED <<settings, progress, addresses, nextAddressId, remote, nextVideoId, lessons,
                   nextLessonId, enrollments, cache, now, resp>>

ConfirmSave ==
    /\ \E w \in Workers : confirm_bunny_upload_save(w)
    /\ UNCHANGED <<settings, progress, addresses, nextAddressId, remote, nextVideoId, lessons,
                   nextLessonId, enrollments, cache, now, resp>>

RemoteProgress ==
    /\ \E bunny_data \in BunnyData : remote_progress(bunny_data)
    /\ UNCHANGED <<settings, progress, addresses, nextAddressId, workers, videos, nextVideoId,
                   lessons, nextLessonId, enrollments, cache, now, resp>>

\* a confirm and polls of one video served concurrently, step by step, while
\* the remote host moves the video forward
NextConfirmPollRace ==
    \/ ConfirmLoad
    \/ ConfirmFetch
    \/ ConfirmSave
    \/ PollLoad
    \/ PollFetch
    \/ PollSave
    \/ PollRespond
    \/ RemoteProgress

SpecConfirmPollRace == InitPollRace /\ [][NextConfirmPollRace]_vars

\* one stored video, referenced by no lesson yet
InitDeleteRace ==
    /\ settings \in {ConfiguredSettings, UnconfiguredSettings}
    /\ \E row \in NonTerminalRows \cup ReadyRows : videos = [id \in {1} |-> row]
    /\ nextVideoId = 2
    /\ lessons = <<>>
    /\ nextLessonId = 1
    /\ enrollments = {}
    /\ cache = <<>>
    /\ now = 0
    /\ resp = Response("none", Anonymous, "")
    /\ workers = [w \in Workers |-> Idle]
    /\ progress = <<>>
    /\ addresses = <<>>
    /\ nextAddressId = 1
    /\ remote = None

DeleteCheck ==
    /\ \E w \in Workers, video_id \in VideoIds : delete_bunny_video_check(w, video_id)
    /\ UNCHANGED <<settings, progress, addresses, nextAddressId, remote, nextVideoId,
                   nextLessonId, enrollments, cache, now, resp>>

DeleteRemote ==
    /\ \E w \in Workers : delete_bunny_video_remote(w)
    /\ UNCHANGED <<settings, progress, addresses, nextAddressId, remote, nextVideoId,
                   nextLessonId, enrollments, cache, now, resp>>

DeleteRow ==
    /\ \E w \in Workers : delete_bunny_video_row(w)
    /\ UNCHANGED <<settings, progress, addresses, nextAddressId, remote, nextVideoId,
                   nextLessonId, enrollments, cache, now, resp>>

\* deletes of a video served step by step while lessons are created and updated
NextDeleteRace ==
    \/ DeleteCheck
    \/ DeleteRemote
    \/ DeleteRow
    \/ LessonCreate
    \/ LessonUpdate

SpecDeleteRace == InitDeleteRace /\ [][NextDeleteRace]_vars

ServeNext ==
    /\ \E w \in Workers : serve_next(w)
    /\ UNCHANGED <<settings, progress, addresses, nextAddressId, remote, videos, nextVideoId,
                   lessons, nextLessonId, enrollments, cache, now, resp>>

RemoteChange ==
    /\ \E bunny_data \in BunnyData : remote_change(bunny_data)
    /\ UNCHANGED <<settings, progress, addresses, nextAddressId, workers, videos, nextVideoId,
                   lessons, nextLessonId, enrollments, cache, now, resp>>

\* one video polled again and again while the remote host works on it
NextPollLive ==
    \/ PollLoad
    \/ PollFetch
    \/ PollSave
    \/ PollRespond
    \/ ServeNext
    \/ RemoteChange

\* a poll's remote call that succeeded, and a poll's save that succeeded
PollFetchSucceeds ==
    PollFetch /\ \E w \in Workers : workers[w].pc = "fetch" /\ workers'[w].bunny_data # None

PollSaveSucceeds ==
    PollSave /\ \E w \in Workers : workers[w].pc = "save" /\ workers'[w].wrote

\* the remote host comes to report code 4
RemoteSettles == RemoteChange /\ remote'[1].status = 4

\* The video keeps being polled, remote calls and saves succeed again and
\* again, and the remote host eventually reports code 4 for good.
PollLiveFairness ==
    /\ WF_vars(PollLoad)
    /\ WF_vars(PollRespond)
    /\ WF_vars(ServeNext)
    /\ SF_vars(PollFetchSucceeds)
    /\ SF_vars(PollSaveSucceeds)
    /\ WF_vars(RemoteSettles)

SpecPollLive == InitPollRace /\ [][NextPollLive]_vars /\ PollLiveFairness

\* one ready video and an empty cache
InitSignRace ==
    /\ settings \in {ConfiguredSettings, UnconfiguredSettings}
    /\ \E row \in ReadyRows : videos = [id \in {1} |-> row]
    /\ nextVideoId = 2
    /\ lessons = <<>>
    /\ nextLessonId = 1
    /\ enrollments = {}
    /\ cache = <<>>
    /\ now = 0
    /\ resp = Response("none", Anonymous, "")
    /\ workers = [w \in Workers |-> Idle]
    /\ progress = <<>>
    /\ addresses = <<>>
    /\ nextAddressId = 1
    /\ remote = None

SignGet ==
    /\ \E w \in Workers, video_id \in VideoIds, h \in ExpiresHours :
          generate_signed_url_get(w, video_id, h)
    /\ UNCHANGED <<settings, progress, addresses, nextAddressId, remote, videos, nextVideoId, lessons, nextLessonId, enrollments,
                   now, resp>>

SignCompute ==
    /\ \E w \in Workers : generate_signed_url_compute(w)
    /\ UNCHANGED <<settings, progress, addresses, nextAddressId, remote, videos, nextVideoId, lessons, nextLessonId, enrollments,
                   now, resp>>

SignSet ==
    /\ \E w \in Workers : generate_signed_url_set(w)
    /\ UNCHANGED <<settings, progress, addresses, nextAddressId, remote, videos, nextVideoId, lessons, nextLessonId, enrollments,
                   now, resp>>

\* playback URL requests for one video served concurrently, step by step
NextSignRace ==
    \/ SignGet
    \/ SignCompute
    \/ SignSet
    \/ Clock

SpecSignRace == InitSignRace /\ [][NextSignRace]_vars

----------------------------------------------------------------------------
(* Properties of the video lifecycle *)

Terminal == {"ready", "failed"}

\* C1: once a video's status is ready or failed, no step changes it.
C1_TerminalStatusIsFinal ==
    [][\A v \in DOMAIN videos \cap DOMAIN videos' :
          videos[v].status \in Terminal => videos'[v].status = videos[v].status]_vars

\* the code the last handler read from the remote host
ReadCode == Get(resp.bunny_data[1], "status", 0)

\* C9: a poll that read a remote code leaves the status a confirm reading that
\* code would have left.
C9_PollMapsLikeConfirm ==
    (resp.op = "check_video_status" /\ resp.bunny_data # None)
        => videos[resp.video_id[1]].status = confirm_status(resp.before[1].status, ReadCode)

\* the mapping of remote codes to local statuses the specification gives
MappedStatus(status, code) ==
    CASE code = 4 -> "ready"
      [] code = 5 -> "failed"
      [] code \in 1 .. 3 -> "processing"
      [] code = 0 -> status

\* C10: a confirm that read a remote code answers 200 with the record, whose
\* status is the mapped one: 4 ready, 5 failed, 1 to 3 processing, 0 unchanged.
C10_ConfirmMapping ==
    (resp.op = "confirm_bunny_upload" /\ resp.bunny_data # None /\ resp.save = Some("saved"))
        => /\ resp.http = "200"
           /\ resp.video_id[1] \in DOMAIN videos
           /\ videos[resp.video_id[1]].status = MappedStatus(resp.before[1].status, ReadCode)
           /\ resp.body.status = videos[resp.video_id[1]].status

\* a confirm read code 5 for a video that was processing: 200 and failed
C10_Witness ==
    /\ resp.op = "confirm_bunny_upload"
    /\ resp.bunny_data # None
    /\ ReadCode = 5
    /\ resp.before[1].status = "processing"
    /\ resp.http = "200"
    /\ resp.body.status = "failed"

C6_BindingExclusive ==
    \A l \in DOMAIN lessons :
        ~(lessons[l].bunny_video # None /\ lessons[l].video_url # <<>>)

----------------------------------------------------------------------------
(* Properties of the access decision *)

\* the last handler serialized a lesson for a viewer
Serialized == resp.op \in {"LessonSerializer", "LessonDetailView"} /\ resp.lesson_id # None

\* the lesson the last handler was asked for
AskedLesson == lessons[resp.lesson_id[1]]

\* the lesson is bound to a video whose status is ready
BoundToReady(lesson) == BoundVideo(lesson) # None /\ BoundVideo(lesson)[1].status = "ready"

\* C2: an anonymous viewer is never handed a signed URL.
C2_AnonymousNeverSigned ==
    (Serialized /\ resp.user = Anonymous) => resp.signed_video_url = None

\* an anonymous viewer was served a free-preview lesson bound to a ready video,
\* without a signed URL
C2_Witness ==
    /\ resp.op = "LessonDetailView"
    /\ resp.lesson_id # None
    /\ resp.user = Anonymous
    /\ resp.http = "200"
    /\ AskedLesson.is_free_preview
    /\ BoundToReady(AskedLesson)
    /\ resp.signed_video_url = None

\* C3: whoever the viewer is, no signed URL is handed out for a lesson with no
\* bound video or with a bound video that is not ready.
C3_NoUrlUnlessReady ==
    (Serialized /\ ~BoundToReady(AskedLesson)) => resp.signed_video_url = None

\* a staff viewer was refused the URL of a lesson whose video is still processing
C3_Witness ==
    /\ Serialized
    /\ is_staff(resp.user)
    /\ AskedLesson.bunny_video # None
    /\ BoundVideo(AskedLesson)[1].status = "processing"
    /\ resp.signed_video_url = None

C5_StaffGrantedOnLessonDetail ==
    (/\ resp.op = "LessonDetailView"
     /\ resp.lesson_id # None
     /\ is_staff(resp.user)
     /\ BoundToReady(AskedLesson)
     /\ ~IsEnrolled(resp.user, AskedLesson.course))
    => resp.signed_video_url # None

----------------------------------------------------------------------------
(* Properties of the signed-URL cache *)

\* C8: the URL of every cache entry expires no earlier than the entry does.
C8_CacheNeverOutlivesToken ==
    \A k \in DOMAIN cache :
        cache[k].url.expires >= cache[k].set_at + CacheTimeoutHours * SecondsPerHour

----------------------------------------------------------------------------
(* Properties of the handlers' failure paths and frames *)

\* the video the last handler was asked for, as stored now
StoredVideo == videos[resp.video_id[1]]

\* the last handler asked the remote host for the status and the call raised
FetchFailed == resp.remote_calls = <<"get_video_status">> /\ resp.bunny_data = None

ErrorStatuses == {"400", "403", "404", "500", "503"}

\* C11: a poll of a video that is ready or failed calls the remote host not at
\* all, leaves the stored record as it was and answers with that record.
C11_TerminalPollIsNoOp ==
    (/\ resp.op = "check_video_status"
     /\ resp.before # None
     /\ resp.before[1].status \in Terminal)
    => /\ resp.remote_calls = <<>>
       /\ StoredVideo = resp.before[1]
       /\ resp.http = "200"
       /\ resp.body.status = resp.before[1].status
       /\ resp.body.video = BunnyVideoSerializer(resp.video_id[1], resp.before[1])

\* a failed video was polled: no remote call, the answer says failed
C11_Witness ==
    /\ resp.op = "check_video_status"
    /\ resp.before # None
    /\ resp.before[1].status = "failed"
    /\ resp.remote_calls = <<>>
    /\ resp.body.status = "failed"

\* C12: when the status call raises during a confirm, the stored record is
\* left as it was and the answer is an error.
C12_ConfirmReportsRemoteFailure ==
    (resp.op = "confirm_bunny_upload" /\ FetchFailed)
        => /\ StoredVideo = resp.before[1]
           /\ resp.http \in ErrorStatuses

\* the status call raised while a processing video was confirmed
C12_Witness ==
    /\ resp.op = "confirm_bunny_upload"
    /\ FetchFailed
    /\ resp.before[1].status = "processing"
    /\ resp.http = "500"
    /\ StoredVideo.status = "processing"

\* C13: when the status call raises during a poll, the answer is a success
\* carrying the status the record had, and the stored record is unchanged.
C13_PollSwallowsRemoteFailure ==
    (resp.op = "check_video_status" /\ FetchFailed)
        => /\ resp.http = "200"
           /\ resp.body.status = resp.before[1].status
           /\ StoredVideo = resp.before[1]

\* the status call raised while a processing video was polled
C13_Witness ==
    /\ resp.op = "check_video_status"
    /\ FetchFailed
    /\ resp.before[1].status = "processing"
    /\ resp.http = "200"
    /\ resp.body.status = "processing"

\* C14: a confirm or poll whose video.save() raised answers with an error, and
\* a confirm or poll that answers 200 carries the status that is stored.
C14_SaveFailurePropagates ==
    (resp.op \in {"confirm_bunny_upload", "check_video_status"} /\ resp.video_id # None)
        => /\ resp.save = Some("DatabaseError") => resp.http \in ErrorStatuses
           /\ resp.http = "200" => resp.body.status = StoredVideo.status

\* C15: with the library id or the API key missing, create and delete call the
\* remote host not at all, and a request that passed the handler's other
\* guards is answered 503.
C15_UnconfiguredNeverCallsRemote ==
    (resp.op \in {"create_bunny_upload", "delete_bunny_video"} /\ ~is_configured)
        => /\ resp.remote_calls = <<>>
           /\ resp.http \in {"400", "403", "404", "503"}

\* C16: a staff delete of a video no lesson references removes the row and
\* answers 200, whatever the remote delete did.
C16_DeleteUnboundSucceeds ==
    [][\A v \in DOMAIN videos :
          (/\ resp'.op = "delete_bunny_video"
           /\ is_staff(resp'.user)
           /\ resp'.video_id = Some(v)
           /\ ~InUse(v))
          => /\ resp'.http = "200"
             /\ resp'.body.status = "deleted"
             /\ v \notin DOMAIN videos']_vars

\* the remote delete raised, and the row is gone all the same
C16_Witness ==
    /\ resp.op = "delete_bunny_video"
    /\ resp.http = "200"
    /\ resp.remote_calls = <<"delete_video">>
    /\ resp.body.remote = "raised"
    /\ resp.video_id[1] \notin DOMAIN videos

\* C17: an upload initiation that answers with a guid added exactly one row,
\* uploading and carrying that guid; any other answer is an error and the
\* table is as it was, so also when create_video raised.
C17_UploadInitiation ==
    [][resp'.op = "create_bunny_upload"
          => IF "guid" \in DOMAIN resp'.body
             THEN /\ resp'.http = "200"
                  /\ \E v \in DOMAIN videos' \ DOMAIN videos :
                        /\ DOMAIN videos' = DOMAIN videos \cup {v}
                        /\ videos'[v].status = "uploading"
                        /\ videos'[v].guid = resp'.body.guid
                  /\ \A u \in DOMAIN videos : videos'[u] = videos[u]
             ELSE /\ resp'.http \in ErrorStatuses
                  /\ videos' = videos]_vars

\* create_video raised: 500 and still no row
C17_Witness ==
    /\ resp.op = "create_bunny_upload"
    /\ resp.remote_calls = <<"create_video">>
    /\ resp.http = "500"
    /\ videos = <<>>

\* the columns confirm fills from the payload
Metadata(video) ==
    <<video.duration_seconds, video.file_size_bytes, video.thumbnail_url,
      video.thumbnail_blurhash>>

\* C18: a confirm that read a code other than 4 leaves duration, file size,
\* thumbnail URL and thumbnail hash as they were, and one that read code 0
\* leaves the whole record as it was.
C18_MetadataOnlyOnReady ==
    (resp.op = "confirm_bunny_upload" /\ resp.bunny_data # None /\ resp.save = Some("saved"))
        => /\ ReadCode # 4 => Metadata(StoredVideo) = Metadata(resp.before[1])
           /\ ReadCode = 0 => StoredVideo = resp.before[1]

----------------------------------------------------------------------------
(* Properties of requests served concurrently *)

\* C19: when polls of one video race against one remote state, the record a
\* write leaves is the one a single poll of the row that worker loaded would
\* produce from that remote state, and no later write changes it.
C19_RacingPollsAgree ==
    \A w \in Workers :
        workers[w].wrote
            => videos[workers[w].video_id[1]] = poll_row(workers[w].loaded[1], remote[1])

\* both polls loaded the row, read code 4 with its metadata and wrote
C19_Witness ==
    /\ \A w \in Workers : workers[w].wrote /\ workers[w].pc = "done"
    /\ "length" \in DOMAIN remote[1]
    /\ videos[1].status = "ready"
    /\ videos[1].duration_seconds = Some(60)

\* every worker has returned, and each of them missed the cache
AllMissed == \A w \in Workers : workers[w].pc = "done" /\ workers[w].signed_url # None

\* C20: when all the concurrent requests for one guid miss the cache, each
\* returns the URL it computed and the cache entry is one of those URLs.
C20_RacingMissesAllServed ==
    AllMissed
        => /\ \A w \in Workers : workers[w].returned # None
           /\ \A w \in Workers :
                 /\ PlaybackKey(Guid_of(w)) \in DOMAIN cache
                 /\ \E v \in Workers :
                       cache[PlaybackKey(Guid_of(w))].url = workers[v].signed_url[1]

\* both requests missed, computed their URLs an hour apart and returned
C20_Witness ==
    /\ AllMissed
    /\ \E w, v \in Workers : workers[w].signed_url[1].expires # workers[v].signed_url[1].expires
    /\ \A w \in Workers : workers[w].returned = workers[w].signed_url

----------------------------------------------------------------------------
(* Properties of the credential functions *)

\* two tokens were computed one after the other
TwoTokens == resp.op = "playback_token" /\ resp.before # None

\* the components in which the two triples differ
DifferingComponents ==
    {c \in {"security_key", "guid", "expiry"} : resp.before[1][c] # resp.body[c]}

\* secret, then guid, then decimal expiry, as one raw string
Concatenated(triple) == triple.security_key \o triple.guid \o Decimal(triple.expiry)

\* C21: equal triples give equal tokens, and triples that differ in at least
\* one component give different tokens.
C21_TokenDiffersWithAnyInput ==
    TwoTokens => (resp.before[1].token = resp.body.token <=> DifferingComponents = {})

\* C21 as amended: the tokens of two triples are equal exactly when the raw
\* concatenations secret, guid, decimal expiry are equal, and triples that
\* differ in exactly one component give different tokens.
C21_TokenDiffersWithOneInput ==
    TwoTokens
        => /\ resp.before[1].token = resp.body.token
                <=> Concatenated(resp.before[1]) = Concatenated(resp.body)
           /\ Cardinality(DifferingComponents) = 1 => resp.before[1].token # resp.body.token

\* two triples that differ in the expiry alone, and two tokens that differ
C21_Witness ==
    /\ TwoTokens
    /\ DifferingComponents = {"expiry"}
    /\ resp.before[1].token # resp.body.token

\* the last call was one of the three credential functions
CredentialOps ==
    {"generate_signed_url", "generate_signed_thumbnail_url", "generate_tus_auth_headers"}

\* the cache key a credential function uses for the video it was called for
OwnKeys(op, video_id) ==
    IF op = "generate_signed_url" THEN {PlaybackKey(videos[video_id].guid)}
    ELSE IF op = "generate_signed_thumbnail_url" THEN {ThumbKey(videos[video_id].guid)}
    ELSE {}

\* C22: a call of a credential function leaves the cache and every table as
\* they were.
C22_CredentialsSideEffectFree ==
    [][resp'.op \in CredentialOps
          => /\ cache' = cache
             /\ <<videos, lessons, enrollments>>' = <<videos, lessons, enrollments>>]_vars

\* C22 as amended: a call of a credential function leaves every table as it
\* was; the upload headers leave the cache as it was too; the playback and
\* thumbnail functions leave the cache as it was on a hit, and on a miss
\* change the entry under their own key for that guid and no other.
C22_CredentialsWriteOwnEntryOnly ==
    [][resp'.op \in CredentialOps
          => LET own == OwnKeys(resp'.op, resp'.video_id[1]) IN
             /\ <<videos, lessons, enrollments>>' = <<videos, lessons, enrollments>>
             /\ DOMAIN cache' \subseteq DOMAIN cache \cup own
             /\ \A k \in DOMAIN cache \ own : k \in DOMAIN cache' /\ cache'[k] = cache[k]
             /\ \A k \in own : CacheGet(k) # None => cache' = cache]_vars

\* a playback URL was computed on a miss while the thumbnail entry of the same
\* video was in the cache, and that entry is still there
C22_Witness ==
    /\ resp.op = "generate_signed_url"
    /\ resp.video_id # None
    /\ resp.video_id[1] \in DOMAIN videos
    /\ LET guid == videos[resp.video_id[1]].guid IN
       /\ PlaybackKey(guid) \in DOMAIN cache
       /\ ThumbKey(guid) \in DOMAIN cache
       /\ cache[PlaybackKey(guid)].set_at > cache[ThumbKey(guid)].set_at
       /\ cache[PlaybackKey(guid)].set_at = now

----------------------------------------------------------------------------
(* Properties of a confirm racing a poll *)

\* C23: while a confirm and a poll of one video interleave and the remote
\* status code only moves forward, a record stored as ready is never
\* overwritten with processing or uploading.
C23_ReadyNeverRegresses ==
    [][\A v \in DOMAIN videos :
          videos[v].status = "ready"
              => videos'[v].status \notin {"processing", "uploading"}]_vars

----------------------------------------------------------------------------
(* Properties of a delete racing a lesson update *)

\* C24: when a delete removes the video row, no lesson references the video,
\* so that no lesson loses a binding its update has completed.
C24_DeleteOnlyUnreferenced ==
    [][\A w \in Workers :
          (workers[w].pc = "delete_row" /\ workers'[w].pc = "deleted")
              => /\ ~InUse(workers[w].video_id[1])
                 /\ \A l \in DOMAIN lessons : lessons'[l].bunny_video = lessons[l].bunny_video]_vars

----------------------------------------------------------------------------
(* Progress of a polled video *)

\* C25: with the remote host eventually reporting code 4 for good, remote
\* calls eventually succeeding and the video polled again and again, the
\* local status eventually is ready and stays ready.
C25_EventuallyReady == <>[](videos[1].status = "ready")

\* C25 as amended: the same, provided the remote host never reports code 5
\* on the way.
C25_EventuallyReadyUnlessFailed ==
    [](remote[1].status # 5) => <>[](videos[1].status = "ready")

\* a poll stored ready from code 4, and a later poll found the record ready
C25_Witness ==
    /\ videos[1].status = "ready"
    /\ remote[1].status = 4
    /\ \E w \in Workers :
          /\ workers[w].pc = "done"
          /\ workers[w].loaded[1].status = "ready"
          /\ workers[w].returned = Some([status |-> "ready"])

----------------------------------------------------------------------------
(* The access decision and the cache *)

\* the viewer is one the access rules deny the video of the lesson
Denied(user, lesson) ==
    \/ ~BoundToReady(lesson)
    \/ ~is_authenticated(user)
    \/ ~is_staff(user) /\ ~IsEnrolled(user, lesson.course) /\ ~lesson.is_free_preview

\* C26: a denied viewer is handed no URL, whatever the cache holds.
C26_DenialIgnoresCache ==
    (Serialized /\ Denied(resp.user, AskedLesson)) => resp.signed_video_url = None

\* a regular viewer who is not enrolled was handed no URL for a lesson whose
\* URL an earlier granted viewer left in the cache
C26_Witness ==
    /\ Serialized
    /\ BoundToReady(AskedLesson)
    /\ is_authenticated(resp.user)
    /\ Denied(resp.user, AskedLesson)
    /\ CacheGet(PlaybackKey(BoundVideo(AskedLesson)[1].guid)) # None
    /\ resp.signed_video_url = None

----------------------------------------------------------------------------
(* Video management is for staff *)

ManagementOps ==
    {"list_bunny_videos", "create_bunny_upload", "confirm_bunny_upload",
     "check_video_status", "delete_bunny_video", "get_video_thumbnail"}

\* C27: a management operation called by an authenticated non-staff user
\* answers 403, makes no remote call and leaves the video table as it was.
C27_NonStaffManagementForbidden ==
    [][(resp'.op \in ManagementOps /\ is_authenticated(resp'.user) /\ ~is_staff(resp'.user))
        => /\ resp'.http = "403"
           /\ resp'.remote_calls = <<>>
           /\ videos' = videos
           /\ nextVideoId' = nextVideoId]_vars

\* a regular user was refused the deletion of a ready video, which is still there
C27_Witness ==
    /\ resp.op = "delete_bunny_video"
    /\ is_authenticated(resp.user) /\ ~is_staff(resp.user)
    /\ resp.http = "403"
    /\ 1 \in DOMAIN videos
    /\ videos[1].status = "ready"

----------------------------------------------------------------------------
(* Enrollments made by order webhooks *)

\* C29: whatever is delivered, and however often, there is at most one
\* enrollment per user and course, and no delivery removes an enrollment or
\* changes the order it records.
C29_OneEnrollmentOrderKept ==
    [][/\ \A e \in enrollments : e \in enrollments'
       /\ \A e1, e2 \in enrollments' :
             (e1.user = e2.user /\ e1.course = e2.course) => e1 = e2]_vars

\* a later order of a course its customer is enrolled in already was
\* delivered: nothing was created and the enrollment records the first order
C29_Witness ==
    /\ resp.op = "saleor_order_webhook" /\ resp.http = "200"
    /\ resp.body.enrollments_created = <<>>
    /\ \E i \in DOMAIN resp.body.order_lines :
          \E e \in enrollments :
             /\ e.user = resp.user
             /\ e.course = resp.body.order_lines[i]
             /\ e.saleor_order_id # resp.body.order_id

----------------------------------------------------------------------------
(* Lesson progress *)

\* C28: a progress row has completed_at set exactly when it is completed,
\* and reporting completion of a lesson that is completed already keeps the
\* time of its first completion.
C28_CompletedAtIffCompleted ==
    /\ \A k \in DOMAIN progress : (progress[k].completed_at # None) <=> progress[k].completed
    /\ (/\ resp.op = "update_lesson_progress" /\ resp.http = "200"
        /\ resp.before # None /\ resp.before[1].completed
        /\ "completed" \in DOMAIN resp.body.validated_data
        /\ resp.body.validated_data.completed)
       => progress[<<resp.user, resp.lesson_id[1]>>].completed_at = resp.before[1].completed_at

\* completion was reported again, later than the first time, and the row
\* still holds the earlier time
C28_Witness ==
    /\ resp.op = "update_lesson_progress" /\ resp.http = "200"
    /\ resp.before # None /\ resp.before[1].completed
    /\ "completed" \in DOMAIN resp.body.validated_data
    /\ resp.body.validated_data.completed
    /\ progress[<<resp.user, resp.lesson_id[1]>>].completed
    /\ progress[<<resp.user, resp.lesson_id[1]>>].completed_at # Some(now)

----------------------------------------------------------------------------
(* Default addresses *)

\* C30: every user has at most one default address, and set_default leaves
\* the address it was called on as the only default of its user.
C30_OneDefaultAddress ==
    /\ \A user \in Users : Cardinality(DefaultAddresses(addresses, user)) <= 1
    /\ (resp.op = "set_default" /\ resp.http = "200")
       => DefaultAddresses(addresses, resp.user) = {resp.body.id}

\* set_default took the default away from another address of the user
C30_Witness ==
    /\ resp.op = "set_default" /\ resp.http = "200"
    /\ resp.body.unset # {}
    /\ resp.body.id \notin resp.body.unset
    /\ resp.body.unset \subseteq OwnAddresses(resp.user)
    /\ addresses[resp.body.id].is_default

====
